---- MODULE Spec2Model ----
(***************************************************************************)
(* Model of add_files_to_xcode.py: the script that registers the Swift     *)
(* files of five category directories in Inc.xcodeproj/project.pbxproj.    *)
(*                                                                         *)
(* A manifest line is a record.  A line of the manifest as first found on  *)
(* disk is [k |-> "text", has |-> S], S the set of marker substrings the   *)
(* line contains (the script looks at a line only through `marker in       *)
(* line`).  A line the script generates is a record of its kind and of the *)
(* values formatted into it.  Identifiers are the strings the script       *)
(* formats.                                                                *)
(***************************************************************************)
EXTENDS Integers, Sequences, FiniteSets, TLC

VARIABLES fs, dirs, disk, pc, run,
          swift_files, files_to_add, lines,
          file_ref_entries, build_file_entries, sources_entries, group_entries,
          counter, n, output_lines, i,
          disk0, writes, regions

vars == <<fs, dirs, disk, pc, run, swift_files, files_to_add, lines,
          file_ref_entries, build_file_entries, sources_entries, group_entries,
          counter, n, output_lines, i, disk0, writes, regions>>

(* ------------------------------ bounds --------------------------------- *)

\* longest manifest made of arbitrary lines
MaxLines == 2
\* most lines removed from a template manifest
MaxDeletes == 1
\* most files present in the category directories
MaxFiles == 3
\* runs of the script in a row (SpecRerun)
MaxRuns == 2

(* ----------------------------- constants ------------------------------- *)

\* for directory in [...] (the scan order)
ScanDirs == <<"Views", "ViewModels", "Models", "Services", "Components">>

Directories == {"Views", "ViewModels", "Models", "Services", "Components"}

\* the group definitions written in the scan order
GroupDirsInScanOrder == ScanDirs

\* the keys of dir_id_map, in insertion order
GroupDirs == <<"Models", "ViewModels", "Views", "Services", "Components">>

dir_id_map(d) ==
    CASE d = "Models" -> "AA0000100000000000000001"
      [] d = "ViewModels" -> "AA0000110000000000000001"
      [] d = "Views" -> "AA0000120000000000000001"
      [] d = "Services" -> "AA0000130000000000000001"
      [] d = "Components" -> "AA0000140000000000000001"

Excluded == {"IncApp.swift", "ContentView.swift"}

StartCounter == 5000

IdWidth == 20

\* the marker substrings the script tests lines for
BeginBuildFile == "/* Begin PBXBuildFile section */"
EndBuildFile == "/* End PBXBuildFile section */"
BeginFileRef == "/* Begin PBXFileReference section */"
EndFileRef == "/* End PBXFileReference section */"
EndGroup == "/* End PBXGroup section */"
SourcesPhase == "AA9999940000000000000001 /* Sources */ = {"
FilesOpen == "files = ("
CloseList == ");"
FolderType == "lastKnownFileType = folder;"
\* '/* <dir> */' for one of the five directories
DirComment == "/* dir */"

(* ------------------------------- lines --------------------------------- *)

Text(S) == [k |-> "text", has |-> S]

\* `marker in line`, by what the text of each kind of line contains
Has(line, m) ==
    CASE line.k = "text" -> m \in line.has
      [] line.k = "gclose" -> m = CloseList
      [] line.k = "ghead" -> m = DirComment
      [] OTHER -> FALSE

\* file names *.swift, in ascending (code point) order
NameOrder == <<"A.swift", "B.swift", "ContentView.swift", "D.swift">>

RECURSIVE Pad(_, _)
Pad(s, w) == IF Len(s) >= w THEN s ELSE Pad("0" \o s, w)

\* the prefix argument ignored
generate_id_one_prefix(prefix, c) == "BB" \o Pad(ToString(c), IdWidth)

\* f"{prefix}{counter:020d}"
generate_id(prefix, c) == prefix \o Pad(ToString(c), IdWidth)

FileRefEntry(id, name) == [k |-> "fileref", id |-> id, name |-> name]
BuildFileEntry(bid, fid, name) ==
    [k |-> "buildfile", id |-> bid, ref |-> fid, name |-> name]
SourcesEntry(bid, name) == [k |-> "source", id |-> bid, name |-> name]
GroupEntry(fid, name) == [k |-> "child", id |-> fid, name |-> name]

\* the eight-line group definition written for one directory
GroupBlock(d, children) ==
    <<[k |-> "ghead", id |-> dir_id_map(d), dir |-> d],
      [k |-> "gisa"], [k |-> "gchildren"]>>
    \o children
    \o <<[k |-> "gclose"], [k |-> "gpath", dir |-> d], [k |-> "gtree"],
         [k |-> "gend"]>>

(* ------------------------------ inputs --------------------------------- *)

FileUniverse ==
    {<<"Views", "A.swift">>, <<"Views", "ContentView.swift">>,
     <<"Views", "D.swift">>, <<"Models", "B.swift">>}

FileSets == {S \in SUBSET FileUniverse : Cardinality(S) <= MaxFiles}

DirsOf(S) == {f[1] : f \in S}

FolderLine == Text({FolderType, DirComment})

\* the lines an arbitrary manifest is made of
Vocabulary ==
    {Text({}), Text({BeginBuildFile}), Text({EndBuildFile}),
     Text({BeginFileRef}), Text({EndFileRef}), Text({EndGroup}),
     Text({SourcesPhase}), Text({FilesOpen}), Text({CloseList}),
     FolderLine, Text({FolderType})}

ShortManifests == UNION {[1..len -> Vocabulary] : len \in 0..MaxLines}

\* a project file with its sections in Xcode's order
Template ==
    <<Text({BeginBuildFile}), Text({}), Text({EndBuildFile}),
      Text({BeginFileRef}), FolderLine, Text({FolderType}), Text({EndFileRef}),
      FolderLine, Text({EndGroup}),
      Text({SourcesPhase}), Text({}), Text({FilesOpen}), Text({}),
      Text({CloseList})>>

\* a project file whose sections are misplaced inside the build-file section
Misplaced ==
    <<Text({BeginBuildFile}), Text({BeginFileRef}), Text({EndGroup}),
      Text({EndFileRef}), Text({EndBuildFile}), Text({SourcesPhase}),
      Text({FilesOpen}), Text({CloseList})>>

\* a file that has none of the sections
NoSections == <<Text({}), Text({CloseList})>>

\* s without the lines at the positions D
Without(s, D) ==
    LET keep == {j \in 1..Len(s) : j \notin D}
        RECURSIVE Pick(_)
        Pick(j) == IF j > Len(s) THEN <<>>
                   ELSE (IF j \in keep THEN <<s[j]>> ELSE <<>>) \o Pick(j + 1)
    IN Pick(1)

Deletions(s) ==
    {Without(s, D) : D \in {X \in SUBSET (1..Len(s)) : Cardinality(X) <= MaxDeletes}}

TemplateManifests ==
    Deletions(Template) \cup Deletions(Misplaced) \cup {NoSections}

Manifests == ShortManifests \cup TemplateManifests

(* ------------------------------ helpers -------------------------------- *)

\* the names of a directory in descending order
SortedSwiftDescending(d) ==
    LET names == {f[2] : f \in {x \in fs : x[1] = d}}
        RECURSIVE Walk(_)
        Walk(j) == IF j < 1 THEN <<>>
                   ELSE (IF NameOrder[j] \in names THEN <<<<d, NameOrder[j]>>>>
                         ELSE <<>>) \o Walk(j - 1)
    IN Walk(Len(NameOrder))

\* sorted(dir_path.glob('*.swift')) as (directory, name) pairs
SortedSwift(d) ==
    LET names == {f[2] : f \in {x \in fs : x[1] = d}}
        RECURSIVE Walk(_)
        Walk(j) == IF j > Len(NameOrder) THEN <<>>
                   ELSE (IF NameOrder[j] \in names THEN <<<<d, NameOrder[j]>>>>
                         ELSE <<>>) \o Walk(j + 1)
    IN Walk(1)

\* the scan of the five directories, a missing one skipped
RECURSIVE ScanFrom(_)
ScanFrom(j) ==
    IF j > Len(ScanDirs) THEN <<>>
    ELSE (IF ScanDirs[j] \in dirs THEN SortedSwift(ScanDirs[j]) ELSE <<>>)
         \o ScanFrom(j + 1)

\* no exclusion list
FilterNothing(sf) == sf

\* files whose name the project file already lists are left out as well
FilterAlreadyListed(sf) ==
    LET listed == {disk[j].name :
                     j \in {x \in 1..Len(disk) : disk[x].k = "fileref"}}
    IN SelectSeq(sf, LAMBDA p : p[2] \notin Excluded /\ p[2] \notin listed)

\* [(d, f) for d, f in swift_files if f not in [...]]
FilterExcluded(sf) == SelectSeq(sf, LAMBDA p : p[2] \notin Excluded)

\* the first index >= j of a line of ls containing m, Len(ls) + 1 if none
RECURSIVE FirstFrom(_, _, _)
FirstFrom(ls, j, m) ==
    IF j > Len(ls) THEN Len(ls) + 1
    ELSE IF Has(ls[j], m) THEN j ELSE FirstFrom(ls, j + 1, m)

\* a folder reference of any directory
IsFolderRefAnyDir(line) == Has(line, FolderType)

\* a folder reference of one of the five directories
IsFolderRef(line) == Has(line, FolderType) /\ Has(line, DirComment)

\* the group definitions, one per directory that has entries
RECURSIVE GroupBlocksFrom(_, _)
GroupBlocksFrom(j, ge) ==
    IF j > Len(GroupDirs) THEN <<>>
    ELSE (IF ge[GroupDirs[j]] # <<>> THEN GroupBlock(GroupDirs[j], ge[GroupDirs[j]])
          ELSE <<>>) \o GroupBlocksFrom(j + 1, ge)

EmptyGroups == [d \in Directories |-> <<>>]

(* ------------------------------- state --------------------------------- *)

InitRun ==
    /\ pc = "discover"
    /\ run = 1
    /\ swift_files = <<>>
    /\ files_to_add = <<>>
    /\ lines = <<>>
    /\ file_ref_entries = <<>>
    /\ build_file_entries = <<>>
    /\ sources_entries = <<>>
    /\ group_entries = EmptyGroups
    /\ counter = StartCounter
    /\ n = 1
    /\ output_lines = <<>>
    /\ i = 1
    /\ writes = 0
    /\ regions = <<>>

Init ==
    /\ fs \in FileSets
    /\ dirs \in {DirsOf(fs), Directories}
    /\ disk \in Manifests
    /\ disk0 = disk
    /\ InitRun

InitRerun ==
    /\ fs \in FileSets
    /\ dirs \in {DirsOf(fs), Directories}
    /\ disk \in TemplateManifests
    /\ disk0 = disk
    /\ InitRun

(* ------------------------------ actions -------------------------------- *)

\* lines 23-33: the scan and the exclusion filter
Discover ==
    /\ pc = "discover"
    /\ swift_files' = ScanFrom(1)
    /\ files_to_add' = FilterExcluded(swift_files')
    /\ pc' = "read"
    /\ UNCHANGED <<fs, dirs, disk, run, lines, file_ref_entries,
                   build_file_entries, sources_entries, group_entries, counter,
                   n, output_lines, i, disk0, writes, regions>>

\* the file opened for reading and writing with truncation ('w+')
ReadManifestTruncating ==
    /\ pc = "read"
    /\ lines' = disk
    /\ disk' = <<>>
    /\ file_ref_entries' = <<>>
    /\ build_file_entries' = <<>>
    /\ sources_entries' = <<>>
    /\ group_entries' = EmptyGroups
    /\ counter' = StartCounter
    /\ n' = 1
    /\ pc' = IF files_to_add = <<>> THEN "splice" ELSE "generate"
    /\ UNCHANGED <<fs, dirs, run, swift_files, files_to_add,
                   output_lines, i, disk0, writes, regions>>

\* lines 38-47: readlines, then the empty entry lists and the counter
ReadManifest ==
    /\ pc = "read"
    /\ lines' = disk
    /\ file_ref_entries' = <<>>
    /\ build_file_entries' = <<>>
    /\ sources_entries' = <<>>
    /\ group_entries' = EmptyGroups
    /\ counter' = StartCounter
    /\ n' = 1
    /\ pc' = IF files_to_add = <<>> THEN "splice" ELSE "generate"
    /\ UNCHANGED <<fs, dirs, disk, run, swift_files, files_to_add,
                   output_lines, i, disk0, writes, regions>>

\* open(pbxproj_path, 'r') raises: the script ends with the traceback
ReadFails ==
    /\ pc = "read"
    /\ pc' = "readerror"
    /\ UNCHANGED <<fs, dirs, disk, run, swift_files, files_to_add, lines,
                   file_ref_entries, build_file_entries, sources_entries,
                   group_entries, counter, n, output_lines, i, disk0, writes,
                   regions>>

\* lines 48-70: one iteration of the generation loop
GenerateEntries ==
    /\ pc = "generate"
    /\ n <= Len(files_to_add)
    /\ LET directory == files_to_add[n][1]
           filename == files_to_add[n][2]
           file_ref_id == generate_id("BB", counter)
           build_file_id == generate_id("CC", counter)
       IN /\ counter' = counter + 1
          /\ file_ref_entries' =
                 Append(file_ref_entries, FileRefEntry(file_ref_id, filename))
          /\ build_file_entries' =
                 Append(build_file_entries,
                        BuildFileEntry(build_file_id, file_ref_id, filename))
          /\ sources_entries' =
                 Append(sources_entries, SourcesEntry(build_file_id, filename))
          /\ group_entries' =
                 [group_entries EXCEPT
                    ![directory] = Append(@, GroupEntry(file_ref_id, filename))]
    /\ n' = n + 1
    /\ pc' = IF n = Len(files_to_add) THEN "splice" ELSE "generate"
    /\ UNCHANGED <<fs, dirs, disk, run, swift_files, files_to_add, lines,
                   output_lines, i, disk0, writes, regions>>

SpliceFrame ==
    UNCHANGED <<fs, dirs, disk, run, swift_files, files_to_add, lines,
                file_ref_entries, build_file_entries, sources_entries,
                group_entries, counter, n, disk0, writes>>

\* lines 79-90: the build-file section
SpliceBuildFile ==
    /\ pc = "splice"
    /\ i <= Len(lines)
    /\ Has(lines[i], BeginBuildFile)
    /\ LET e == FirstFrom(lines, i + 1, EndBuildFile)
           copied == output_lines \o SubSeq(lines, i, e - 1) \o build_file_entries
       IN IF e > Len(lines)
          THEN \* lines[i] at line 88 raises IndexError
               /\ output_lines' = copied
               /\ i' = e
               /\ pc' = "crashed"
               /\ UNCHANGED regions
          ELSE /\ output_lines' = Append(copied, lines[e])
               /\ i' = e + 1
               /\ pc' = "splice"
               /\ regions' = Append(regions,
                      [r |-> "build", b |-> i, e |-> e,
                       at |-> Len(copied) - Len(build_file_entries)])
    /\ SpliceFrame

\* no folder reference removed
KeepAll(ls, b, e) == SubSeq(ls, b, e)

\* lines[b..e] without the folder references of the five directories
RECURSIVE KeepFrom(_, _, _)
KeepFrom(ls, b, e) ==
    IF b > e THEN <<>>
    ELSE (IF IsFolderRef(ls[b]) THEN <<>> ELSE <<ls[b]>>) \o KeepFrom(ls, b + 1, e)

\* lines 93-110: the file-reference section
SpliceFileRef ==
    /\ pc = "splice"
    /\ i <= Len(lines)
    /\ ~Has(lines[i], BeginBuildFile)
    /\ Has(lines[i], BeginFileRef)
    /\ LET e == FirstFrom(lines, i + 1, EndFileRef)
           copied == output_lines \o <<lines[i]>> \o KeepFrom(lines, i + 1, e - 1)
                     \o file_ref_entries
       IN IF e > Len(lines)
          THEN \* lines[i] at line 108 raises IndexError
               /\ output_lines' = copied
               /\ i' = e
               /\ pc' = "crashed"
               /\ UNCHANGED regions
          ELSE /\ output_lines' = Append(copied, lines[e])
               /\ i' = e + 1
               /\ pc' = "splice"
               /\ regions' = Append(regions,
                      [r |-> "fileref", b |-> i, e |-> e,
                       at |-> Len(copied) - Len(file_ref_entries)])
    /\ SpliceFrame

\* lines 113-136: the group definitions before the end of the group section
SpliceGroup ==
    /\ pc = "splice"
    /\ i <= Len(lines)
    /\ ~Has(lines[i], BeginBuildFile)
    /\ ~Has(lines[i], BeginFileRef)
    /\ Has(lines[i], EndGroup)
    /\ output_lines' =
           Append(output_lines \o GroupBlocksFrom(1, group_entries), lines[i])
    /\ i' = i + 1
    /\ regions' = Append(regions,
           [r |-> "group", b |-> i, e |-> i, at |-> Len(output_lines)])
    /\ UNCHANGED pc
    /\ SpliceFrame

\* lines 139-156: the file list of the sources build phase
SpliceSources ==
    /\ pc = "splice"
    /\ i <= Len(lines)
    /\ ~Has(lines[i], BeginBuildFile)
    /\ ~Has(lines[i], BeginFileRef)
    /\ ~Has(lines[i], EndGroup)
    /\ Has(lines[i], SourcesPhase)
    /\ LET f == FirstFrom(lines, i + 1, FilesOpen)
           c == FirstFrom(lines, f + 1, CloseList)
       IN IF f > Len(lines)
          THEN \* lines[i] at line 146 raises IndexError
               /\ output_lines' = output_lines \o SubSeq(lines, i, Len(lines))
               /\ i' = f
               /\ pc' = "crashed"
               /\ UNCHANGED regions
          ELSE IF c > Len(lines)
          THEN \* lines[i] at line 154 raises IndexError
               /\ output_lines' =
                      output_lines \o SubSeq(lines, i, Len(lines)) \o sources_entries
               /\ i' = c
               /\ pc' = "crashed"
               /\ UNCHANGED regions
          ELSE /\ output_lines' =
                      Append(output_lines \o SubSeq(lines, i, c - 1)
                             \o sources_entries, lines[c])
               /\ i' = c + 1
               /\ pc' = "splice"
               /\ regions' = Append(regions,
                      [r |-> "sources", b |-> i, e |-> c,
                       at |-> Len(output_lines) + (c - i)])
    /\ SpliceFrame

\* lines 158-159: any other line is copied
SpliceCopy ==
    /\ pc = "splice"
    /\ i <= Len(lines)
    /\ ~Has(lines[i], BeginBuildFile)
    /\ ~Has(lines[i], BeginFileRef)
    /\ ~Has(lines[i], EndGroup)
    /\ ~Has(lines[i], SourcesPhase)
    /\ output_lines' = Append(output_lines, lines[i])
    /\ i' = i + 1
    /\ UNCHANGED <<pc, regions>>
    /\ SpliceFrame

\* lines 162-169: the whole output is written and the script returns 0
WriteBack ==
    /\ pc = "splice"
    /\ i > Len(lines)
    /\ disk' = output_lines
    /\ writes' = writes + 1
    /\ pc' = "done"
    /\ UNCHANGED <<fs, dirs, run, swift_files, files_to_add, lines,
                   file_ref_entries, build_file_entries, sources_entries,
                   group_entries, counter, n, output_lines, i, disk0, regions>>

\* open(pbxproj_path, 'w') raises (permission): nothing is written
WriteFails ==
    /\ pc = "splice"
    /\ i > Len(lines)
    /\ pc' = "writeerror"
    /\ UNCHANGED <<fs, dirs, disk, run, swift_files, files_to_add, lines,
                   file_ref_entries, build_file_entries, sources_entries,
                   group_entries, counter, n, output_lines, i, disk0, writes,
                   regions>>

\* the script is started again on the file it wrote, the directories unchanged
Rerun ==
    /\ pc = "done"
    /\ run < MaxRuns
    /\ run' = run + 1
    /\ pc' = "discover"
    /\ swift_files' = <<>>
    /\ files_to_add' = <<>>
    /\ lines' = <<>>
    /\ file_ref_entries' = <<>>
    /\ build_file_entries' = <<>>
    /\ sources_entries' = <<>>
    /\ group_entries' = EmptyGroups
    /\ counter' = StartCounter
    /\ n' = 1
    /\ output_lines' = <<>>
    /\ i' = 1
    /\ writes' = 0
    /\ regions' = <<>>
    /\ disk0' = disk
    /\ UNCHANGED <<fs, dirs, disk>>

Next ==
    \/ Discover
    \/ ReadManifest
    \/ ReadFails
    \/ GenerateEntries
    \/ SpliceBuildFile
    \/ SpliceFileRef
    \/ SpliceGroup
    \/ SpliceSources
    \/ SpliceCopy
    \/ WriteBack
    \/ WriteFails

Spec == Init /\ [][Next]_vars

NextRerun == Next \/ Rerun

SpecRerun == InitRerun /\ [][NextRerun]_vars

(* ======================= properties of the script ====================== *)

ExclusionSet == {"IncApp.swift", "ContentView.swift"}

\* the generation loop has ended
GenDone == pc \in {"splice", "done", "crashed", "writeerror"}

\* the splicing pass has ended without an error
SpliceDone == (pc = "splice" /\ i > Len(lines)) \/ pc \in {"done", "writeerror"}

RECURSIVE IsSubseq(_, _)
IsSubseq(a, b) ==
    IF a = <<>> THEN TRUE
    ELSE IF b = <<>> THEN FALSE
    ELSE IF Head(a) = Head(b) THEN IsSubseq(Tail(a), Tail(b))
    ELSE IsSubseq(a, Tail(b))

\* line j lies after a begin marker of the file-reference table and no end
\* marker of that table lies between the two, line j included
InFileRefTable(ls, j) ==
    \E b \in 1..(j - 1) :
        /\ Has(ls[b], BeginFileRef)
        /\ \A m \in (b + 1)..j : ~Has(ls[m], EndFileRef)

WatchedFolderLine(line) == Has(line, FolderType) /\ Has(line, DirComment)

Droppable(ls, j) == WatchedFolderLine(ls[j]) /\ InFileRefTable(ls, j)

RECURSIVE SurvivorsFrom(_, _)
SurvivorsFrom(ls, j) ==
    IF j > Len(ls) THEN <<>>
    ELSE (IF Droppable(ls, j) THEN <<>> ELSE <<ls[j]>>) \o SurvivorsFrom(ls, j + 1)

\* C1: when the splicing pass completes, the original lines other than the
\* watched folder references inside the file-reference table are all in the
\* output, unchanged and in their original order (so a folder reference
\* outside that table is never dropped).
C1_LinesPreserved ==
    SpliceDone => IsSubseq(SurvivorsFrom(lines, 1), output_lines)

\* a completed pass that dropped a folder reference inside the table and kept
\* one outside it
C1_Witness ==
    /\ SpliceDone
    /\ Len(output_lines) < Len(lines) + Len(file_ref_entries)
    /\ \E j \in 1..Len(lines) :
           WatchedFolderLine(lines[j]) /\ ~InFileRefTable(lines, j)
    /\ \E j \in 1..Len(lines) : Droppable(lines, j)

Markers == {BeginBuildFile, EndBuildFile, BeginFileRef, EndFileRef, EndGroup,
            SourcesPhase, FilesOpen, CloseList}

Present(ls, m) == \E j \in 1..Len(ls) : Has(ls[j], m)

\* C2: on a manifest that lacks one or more of the expected marker lines the
\* splicing pass raises no error.
C2_NoErrorOnMissingMarker ==
    (\E m \in Markers : ~Present(lines, m)) => pc # "crashed"

\* C3: the manifest is written at most once in a run, as the whole output of
\* a finished pass over the fully read file; until then, and in a run that
\* fails, the file is as it was when the run began.
C3_SingleWholeWrite ==
    /\ writes <= 1
    /\ writes = 0 => disk = disk0
    /\ writes = 1 =>
          /\ pc = "done"
          /\ lines = disk0
          /\ i > Len(lines)
          /\ disk = output_lines
    /\ pc \in {"readerror", "crashed", "writeerror"} => disk = disk0

\* a pass that failed after it had built part of the output
C3_Witness ==
    /\ pc = "crashed"
    /\ output_lines # <<>>
    /\ \E j \in 1..Len(output_lines) : output_lines[j].k # "text"
    /\ disk = disk0

RECURSIVE SumLen(_, _)
SumLen(ge, S) ==
    IF S = {} THEN 0
    ELSE LET d == CHOOSE x \in S : TRUE
         IN Len(ge[d]) + SumLen(ge, S \ {d})

\* the files a scan finds: those of the directories that exist
Discovered == {f \in fs : f[1] \in dirs}

NamesIn(entries) == {entries[j].name : j \in 1..Len(entries)}

\* C4: after generation there are as many fragments of each of the four kinds
\* as discovered files outside the exclusion set, and none for an excluded file.
C4_FragmentCounts ==
    GenDone =>
        LET want == Cardinality({f \in Discovered : f[2] \notin ExclusionSet})
        IN /\ Len(file_ref_entries) = want
           /\ Len(build_file_entries) = want
           /\ Len(sources_entries) = want
           /\ SumLen(group_entries, Directories) = want
           /\ \A d \in Directories :
                  NamesIn(group_entries[d]) \cap ExclusionSet = {}
           /\ (NamesIn(file_ref_entries) \cup NamesIn(build_file_entries)
                 \cup NamesIn(sources_entries)) \cap ExclusionSet = {}

\* generation ended with an excluded file and another file discovered
C4_Witness ==
    /\ GenDone
    /\ \E f \in Discovered : f[2] \in ExclusionSet
    /\ Len(file_ref_entries) > 0

\* the identifier of a counter value of four digits, as the manifest shows it
IdText(prefix, c) == prefix \o "0000000000000000" \o ToString(c)

AllIds == {file_ref_entries[j].id : j \in 1..Len(file_ref_entries)}
          \cup {build_file_entries[j].id : j \in 1..Len(build_file_entries)}

\* C5: the k-th file to add (k from 0) has the file-reference identifier BB
\* and the build-file identifier CC of the counter value 5000 + k, the counter
\* has grown by one per file, and all the identifiers of a run differ.
C5_Identifiers ==
    /\ Len(file_ref_entries) = Len(build_file_entries)
    /\ pc \notin {"discover", "read", "readerror"} =>
           counter = 5000 + Len(file_ref_entries)
    /\ \A j \in 1..Len(file_ref_entries) :
           /\ file_ref_entries[j].id = IdText("BB", 5000 + (j - 1))
           /\ build_file_entries[j].id = IdText("CC", 5000 + (j - 1))
           /\ build_file_entries[j].ref = file_ref_entries[j].id
           /\ file_ref_entries[j].name = files_to_add[j][2]
           /\ build_file_entries[j].name = files_to_add[j][2]
    /\ Cardinality(AllIds) = 2 * Len(file_ref_entries)

\* two files given identifiers, the first of them found after an excluded file
C5_Witness ==
    /\ GenDone
    /\ Len(file_ref_entries) = 2
    /\ swift_files # files_to_add
    /\ swift_files[1][2] \in ExclusionSet

\* the identifiers a line of the manifest holds
IdsOfLine(line) ==
    CASE line.k \in {"fileref", "source", "child", "ghead"} -> {line.id}
      [] line.k = "buildfile" -> {line.id, line.ref}
      [] OTHER -> {}

IdsIn(ls) == UNION {IdsOfLine(ls[j]) : j \in 1..Len(ls)}

\* C6: no identifier generated in a run is already in the manifest the run read.
C6_NoCollisionWithManifest ==
    pc \in {"generate", "splice", "done"} => AllIds \cap IdsIn(lines) = {}

(* ----------------- what the claims expect to be inserted ---------------- *)

ClaimScanOrder == <<"Views", "ViewModels", "Models", "Services", "Components">>

ClaimGroupOrder == <<"Models", "ViewModels", "Views", "Services", "Components">>

\* the discovered files outside the exclusion set: directories in the scan
\* order, names ascending within a directory
RECURSIVE ExpectedFrom(_, _)
ExpectedFrom(a, b) ==
    IF a > Len(ClaimScanOrder) THEN <<>>
    ELSE IF b > Len(NameOrder) THEN ExpectedFrom(a + 1, 1)
    ELSE (IF /\ <<ClaimScanOrder[a], NameOrder[b]>> \in Discovered
             /\ NameOrder[b] \notin ExclusionSet
          THEN <<<<ClaimScanOrder[a], NameOrder[b]>>>> ELSE <<>>)
         \o ExpectedFrom(a, b + 1)

ExpectedFiles == ExpectedFrom(1, 1)

ExpectedFileRefs ==
    [j \in 1..Len(ExpectedFiles) |->
        FileRefEntry(IdText("BB", 5000 + (j - 1)), ExpectedFiles[j][2])]

ExpectedBuildFiles ==
    [j \in 1..Len(ExpectedFiles) |->
        BuildFileEntry(IdText("CC", 5000 + (j - 1)),
                       IdText("BB", 5000 + (j - 1)), ExpectedFiles[j][2])]

ExpectedSources ==
    [j \in 1..Len(ExpectedFiles) |->
        SourcesEntry(IdText("CC", 5000 + (j - 1)), ExpectedFiles[j][2])]

RECURSIVE ExpectedChildrenFrom(_, _)
ExpectedChildrenFrom(d, j) ==
    IF j > Len(ExpectedFiles) THEN <<>>
    ELSE (IF ExpectedFiles[j][1] = d
          THEN <<GroupEntry(IdText("BB", 5000 + (j - 1)), ExpectedFiles[j][2])>>
          ELSE <<>>) \o ExpectedChildrenFrom(d, j + 1)

RECURSIVE ExpectedBlocksFrom(_)
ExpectedBlocksFrom(a) ==
    IF a > Len(ClaimGroupOrder) THEN <<>>
    ELSE LET d == ClaimGroupOrder[a]
             ch == ExpectedChildrenFrom(d, 1)
         IN (IF ch # <<>> THEN GroupBlock(d, ch) ELSE <<>>)
            \o ExpectedBlocksFrom(a + 1)

ExpectedBlocks == ExpectedBlocksFrom(1)

\* the block sits in out right before a line containing the marker m
BlockBefore(out, block, m) ==
    \E p \in 0..(Len(out) - Len(block) - 1) :
        /\ SubSeq(out, p + 1, p + Len(block)) = block
        /\ Has(out[p + Len(block) + 1], m)

\* a line with the begin marker and a later line with the end marker
HasRegion(ls, bm, em) ==
    \E b \in 1..Len(ls) : \E e \in (b + 1)..Len(ls) :
        Has(ls[b], bm) /\ Has(ls[e], em)

HasSourcesRegion(ls) ==
    \E b \in 1..Len(ls) : \E f \in (b + 1)..Len(ls) : \E c \in (f + 1)..Len(ls) :
        Has(ls[b], SourcesPhase) /\ Has(ls[f], FilesOpen) /\ Has(ls[c], CloseList)

\* C7 as stated: in the output of a completed run on a manifest that has the
\* markers of a region, the fragments of that region stand in discovery order
\* as one block right before a line with the region's closing marker.
C7_Original ==
    SpliceDone =>
        /\ HasRegion(lines, BeginBuildFile, EndBuildFile) =>
               BlockBefore(output_lines, ExpectedBuildFiles, EndBuildFile)
        /\ HasRegion(lines, BeginFileRef, EndFileRef) =>
               BlockBefore(output_lines, ExpectedFileRefs, EndFileRef)
        /\ HasSourcesRegion(lines) =>
               BlockBefore(output_lines, ExpectedSources, CloseList)

CloseMarker(r) ==
    CASE r = "build" -> EndBuildFile
      [] r = "fileref" -> EndFileRef
      [] r = "sources" -> CloseList
      [] r = "group" -> EndGroup

ExpectedFragments(r) ==
    CASE r = "build" -> ExpectedBuildFiles
      [] r = "fileref" -> ExpectedFileRefs
      [] r = "sources" -> ExpectedSources
      [] r = "group" -> ExpectedBlocks

RECURSIVE UnwatchedFrom(_, _, _)
UnwatchedFrom(ls, b, e) ==
    IF b > e THEN <<>>
    ELSE (IF WatchedFolderLine(ls[b]) THEN <<>> ELSE <<ls[b]>>)
         \o UnwatchedFrom(ls, b + 1, e)

\* the lines of a region that were there before, as the output keeps them
RegionBody(g) ==
    CASE g.r = "fileref" -> <<lines[g.b]>> \o UnwatchedFrom(lines, g.b + 1, g.e - 1)
      [] g.r = "group" -> <<>>
      [] OTHER -> SubSeq(lines, g.b, g.e - 1)

\* line g.e is the first closing line of the region that begins at line g.b
ClosesFirst(g) ==
    CASE g.r = "sources" ->
             \E f \in (g.b + 1)..(g.e - 1) :
                 /\ Has(lines[f], FilesOpen)
                 /\ \A m \in (g.b + 1)..(f - 1) : ~Has(lines[m], FilesOpen)
                 /\ \A m \in (f + 1)..(g.e - 1) : ~Has(lines[m], CloseList)
      [] g.r = "group" -> TRUE
      [] OTHER -> \A m \in (g.b + 1)..(g.e - 1) : ~Has(lines[m], CloseMarker(g.r))

\* the region g the scan entered has, in the output, its earlier lines, then
\* the expected fragments as one block, then its closing line
RegionSpliced(g) ==
    LET frag == ExpectedFragments(g.r)
        body == RegionBody(g)
    IN /\ Has(lines[g.e], CloseMarker(g.r))
       /\ ClosesFirst(g)
       /\ g.at >= Len(body)
       /\ Len(output_lines) >= g.at + Len(frag) + 1
       /\ SubSeq(output_lines, g.at - Len(body) + 1, g.at) = body
       /\ SubSeq(output_lines, g.at + 1, g.at + Len(frag)) = frag
       /\ output_lines[g.at + Len(frag) + 1] = lines[g.e]

Entered == {regions[j] : j \in 1..Len(regions)}

\* line j is not inside a region the scan entered at an earlier line
Outside(j) == \A g \in Entered : g.r = "group" \/ ~(g.b < j /\ j <= g.e)

\* the region kind that a line opens when the scan reaches it
Opens(line) ==
    CASE Has(line, BeginBuildFile) -> "build"
      [] Has(line, BeginFileRef) -> "fileref"
      [] Has(line, EndGroup) -> "group"
      [] Has(line, SourcesPhase) -> "sources"
      [] OTHER -> "none"

\* C7 (amended): for every file-reference, build-file and build-phase region
\* whose opening line is not inside a region opened at an earlier line, the
\* output of a completed run holds the region's earlier lines, then its
\* fragments in discovery order as one block, then its first closing line.
C7_RegionsSpliced ==
    /\ \A g \in Entered : g.r # "group" => RegionSpliced(g)
    /\ SpliceDone =>
           \A j \in 1..Len(lines) :
               (Outside(j) /\ Opens(lines[j]) \in {"build", "fileref", "sources"})
                   => \E g \in Entered : g.b = j /\ g.r = Opens(lines[j])

\* a completed run that filled all three regions with two files of one
\* directory
C7_Witness ==
    /\ SpliceDone
    /\ {g.r : g \in Entered} = {"build", "fileref", "sources", "group"}
    /\ Len(files_to_add) >= 2
    /\ files_to_add[1][1] = files_to_add[2][1]
    /\ \E j \in 1..Len(lines) : ~Outside(j)

\* C8 as stated: before every line containing the end marker of the group
\* section stand the group definitions, in the fixed order, of the directories
\* that have files.
C8_Original ==
    SpliceDone =>
        \A j \in 1..Len(lines) :
            Has(lines[j], EndGroup) =>
                \E p \in 0..(Len(output_lines) - Len(ExpectedBlocks) - 1) :
                    /\ SubSeq(output_lines, p + 1, p + Len(ExpectedBlocks))
                           = ExpectedBlocks
                    /\ output_lines[p + Len(ExpectedBlocks) + 1] = lines[j]

\* C8 (amended): before every line with the end marker of the group section
\* that the scan reaches outside the regions opened at earlier lines stand the
\* group definitions of the directories that have files, Models, ViewModels,
\* Views, Services, Components in this order, each with its children in
\* discovery order.
C8_GroupBlocks ==
    /\ \A g \in Entered : g.r = "group" => RegionSpliced(g)
    /\ SpliceDone =>
           \A j \in 1..Len(lines) :
               (Outside(j) /\ Opens(lines[j]) = "group")
                   => \E g \in Entered : g.b = j /\ g.r = "group"

\* group definitions written for Models and Views, found in the other order
C8_Witness ==
    /\ SpliceDone
    /\ \E g \in Entered : g.r = "group"
    /\ {files_to_add[j][1] : j \in 1..Len(files_to_add)} = {"Views", "Models"}
    /\ files_to_add[1][1] = "Views"

CountLines(ls, P(_)) == Cardinality({j \in 1..Len(ls) : P(ls[j])})

IsSourcesEntry(line) == line.k = "source"

Once(ls, m) == Cardinality({j \in 1..Len(ls) : Has(ls[j], m)}) = 1

LineOf(ls, m) == CHOOSE j \in 1..Len(ls) : Has(ls[j], m)

\* each of the five markers of the three regions is on one line, the end marker
\* of each table after its begin marker, the two tables apart and the end of
\* the group section outside both
ThreeRegions(ls) ==
    /\ \A m \in {BeginBuildFile, EndBuildFile, BeginFileRef, EndFileRef, EndGroup} :
           Once(ls, m)
    /\ LET bb == LineOf(ls, BeginBuildFile)
           eb == LineOf(ls, EndBuildFile)
           bf == LineOf(ls, BeginFileRef)
           ef == LineOf(ls, EndFileRef)
           eg == LineOf(ls, EndGroup)
       IN /\ bb < eb
          /\ bf < ef
          /\ eb < bf \/ ef < bb
          /\ ~(bb <= eg /\ eg <= eb)
          /\ ~(bf <= eg /\ eg <= ef)

\* C9 as stated, on the manifests that have each of the other three regions
\* once and apart: without the build-phase line the run completes, no
\* sources-phase fragment is in the output, and the output is longer than the
\* input by the insertions of the three regions.
C9_Original ==
    (~Present(lines, SourcesPhase) /\ ThreeRegions(lines))
    => /\ pc # "crashed"
       /\ SpliceDone =>
             /\ CountLines(output_lines, IsSourcesEntry) = 0
             /\ Len(output_lines) =
                    Len(lines) + Len(ExpectedFileRefs) + Len(ExpectedBuildFiles)
                    + Len(ExpectedBlocks)

DroppedCount(ls) == Cardinality({j \in 1..Len(ls) : Droppable(ls, j)})

\* C9 (amended): without the build-phase line and with each of the other three
\* regions present once and apart from the others, the run completes, no
\* sources-phase fragment is in the output, and the output has the lines of
\* the input, less the watched folder references dropped from the
\* file-reference table, plus the insertions of the three regions.
C9_LengthWithoutSources ==
    (~Present(lines, SourcesPhase) /\ ThreeRegions(lines))
    => /\ pc # "crashed"
       /\ SpliceDone =>
             /\ CountLines(output_lines, IsSourcesEntry) = 0
             /\ Len(output_lines) =
                    Len(lines) - DroppedCount(lines) + Len(ExpectedFileRefs)
                    + Len(ExpectedBuildFiles) + Len(ExpectedBlocks)

\* such a run, with files to add and a folder reference dropped
C9_Witness ==
    /\ SpliceDone
    /\ ~Present(lines, SourcesPhase)
    /\ ThreeRegions(lines)
    /\ DroppedCount(lines) > 0
    /\ sources_entries # <<>>
    /\ Len(output_lines) > Len(lines)

Occurrences(ls, x) == Cardinality({j \in 1..Len(ls) : ls[j] = x})

\* the records a run inserts: the fragments and the head line of each group
InsertedRecords ==
    LET SetOf(seq) == {seq[j] : j \in 1..Len(seq)}
    IN SetOf(ExpectedFileRefs) \cup SetOf(ExpectedBuildFiles)
       \cup SetOf(ExpectedSources) \cup SetOf(ExpectedBlocks)

\* C10 as stated: after a second run with the same files, at least one of
\* them to add, the manifest differs from the one the first run wrote.
C10_Original ==
    (run = 2 /\ pc = "done" /\ ExpectedFiles # <<>>) => disk # lines

\* the records with a field of their own (not the fixed lines of a group)
NamedRecords == {x \in InsertedRecords : x.k \in {"fileref", "buildfile", "source", "child", "ghead", "gpath"}}

\* C10 (amended): after a second run with the same discovered files every
\* record the first run inserted occurs twice as often as after the first
\* run, so the manifest differs from the one the first run wrote whenever
\* the first run inserted a record (it reached a region with a file to add).
C10_NotIdempotent ==
    (run = 2 /\ pc = "done") =>
        LET recs == NamedRecords
        IN /\ \A x \in recs : Occurrences(disk, x) = 2 * Occurrences(lines, x)
           /\ (\E x \in recs : Occurrences(lines, x) > 0) => disk # lines

\* a second run that doubled a record of each kind
C10_Witness ==
    /\ run = 2
    /\ pc = "done"
    /\ \A kind \in {"fileref", "buildfile", "source", "child", "ghead"} :
           \E x \in NamedRecords : x.k = kind /\ Occurrences(disk, x) = 2

====
